---- MODULE Spec2Model ----
(***************************************************************************)
(* Model of eisenhower_app.py: the task catalog, the priority score, the   *)
(* staffing calculation, and the update_task / reset_tasks operations on   *)
(* the Google Sheet, with one cell write per step.                         *)
(***************************************************************************)
EXTENDS Integers, Sequences, FiniteSets, TLC

(***************************************************************************)
(* Python floats are IEEE-754 binary64.  The staffing calculation divides  *)
(* and multiplies floats, so its roundings are modelled exactly: a float   *)
(* is m * 2^e with m = 0 or 2^52 <= m < 2^53, and m is held as a           *)
(* little-endian sequence of 14-bit limbs because the model's integers     *)
(* are 32 bits wide.                                                       *)
(***************************************************************************)
LimbBits == 14
LimbBase == 2^14
MantissaBits == 53
GuardShift == 64

RECURSIVE BitLen(_)
BitLen(n) == IF n = 0 THEN 0 ELSE 1 + BitLen(n \div 2)

RECURSIVE BigFromInt(_)
BigFromInt(n) == IF n = 0 THEN << >> ELSE <<n % LimbBase>> \o BigFromInt(n \div LimbBase)

RECURSIVE BigToInt(_)
BigToInt(a) == IF a = << >> THEN 0 ELSE a[1] + LimbBase * BigToInt(Tail(a))

BigIsZero(a) == \A k \in 1..Len(a) : a[k] = 0

RECURSIVE BigTopLimb(_, _)
BigTopLimb(a, k) == IF k = 0 THEN 0 ELSE IF a[k] # 0 THEN k ELSE BigTopLimb(a, k - 1)

BigBitLen(a) ==
    LET h == BigTopLimb(a, Len(a))
    IN  IF h = 0 THEN 0 ELSE (h - 1) * LimbBits + BitLen(a[h])

RECURSIVE BigMulSmall(_, _, _)
BigMulSmall(a, m, carry) ==
    IF a = << >>
    THEN BigFromInt(carry)
    ELSE LET t == a[1] * m + carry
         IN  <<t % LimbBase>> \o BigMulSmall(Tail(a), m, t \div LimbBase)

RECURSIVE BigAdd(_, _, _)
BigAdd(a, b, carry) ==
    IF a = << >> /\ b = << >>
    THEN BigFromInt(carry)
    ELSE LET x == IF a = << >> THEN 0 ELSE a[1]
             y == IF b = << >> THEN 0 ELSE b[1]
             t == x + y + carry
         IN  <<t % LimbBase>>
             \o BigAdd(IF a = << >> THEN a ELSE Tail(a),
                       IF b = << >> THEN b ELSE Tail(b), t \div LimbBase)

RECURSIVE BigMul(_, _)
BigMul(a, b) ==
    IF b = << >>
    THEN << >>
    ELSE BigAdd(BigMulSmall(a, b[1], 0), <<0>> \o BigMul(a, Tail(b)), 0)

RECURSIVE BigDivSmallRec(_, _, _, _, _)
BigDivSmallRec(a, d, k, rem, acc) ==
    IF k = 0
    THEN <<acc, rem>>
    ELSE LET t == rem * LimbBase + a[k]
         IN  BigDivSmallRec(a, d, k - 1, t % d, <<t \div d>> \o acc)

\* <<quotient, remainder>> of a by the small divisor d.
BigDivSmall(a, d) == BigDivSmallRec(a, d, Len(a), 0, << >>)

BigShiftLeft(a, k) ==
    [j \in 1..(k \div LimbBits) |-> 0] \o BigMulSmall(a, 2^(k % LimbBits), 0)

BigShiftRight(a, k) ==
    BigDivSmall(SubSeq(a, (k \div LimbBits) + 1, Len(a)), 2^(k % LimbBits))[1]

\* Whether any of the k lowest bits of a is set.
BigLowBitsNonZero(a, k) ==
    LET w == k \div LimbBits
    IN  \/ \E j \in 1..w : j <= Len(a) /\ a[j] # 0
        \/ w + 1 <= Len(a) /\ a[w + 1] % 2^(k % LimbBits) # 0

FloatZero == [m |-> << >>, e |-> 0]

\* The float nearest to num * 2^e / den (round half to even), num a
\* non-negative big integer and den a positive integer below 2^11.
RoundToFloat(num, den, e) ==
    IF BigIsZero(num)
    THEN FloatZero
    ELSE LET qr     == BigDivSmall(BigShiftLeft(num, GuardShift), den)
             Q      == qr[1]
             drop   == BigBitLen(Q) - MantissaBits
             Q1     == BigShiftRight(Q, drop - 1)
             M0     == BigShiftRight(Q1, 1)
             guard  == Q1[1] % 2 = 1
             sticky == qr[2] # 0 \/ BigLowBitsNonZero(Q, drop - 1)
             up     == guard /\ (sticky \/ M0[1] % 2 = 1)
             M1     == IF up THEN BigAdd(M0, <<1>>, 0) ELSE M0
         IN  IF BigBitLen(M1) > MantissaBits
             THEN [m |-> BigShiftRight(M1, 1), e |-> e - GuardShift + drop + 1]
             ELSE [m |-> M1, e |-> e - GuardShift + drop]

\* a / b for Python ints a >= 0, b > 0: the correctly rounded quotient.
int_truediv(a, b) == RoundToFloat(BigFromInt(a), b, 0)

\* x / b for a float x given exactly as halves / 2, divided by the int b.
halves_truediv(halves, b) == RoundToFloat(BigFromInt(halves), b, -1)

\* x * y for floats.
float_mul(x, y) == RoundToFloat(BigMul(x.m, y.m), 1, x.e + y.e)

\* math.ceil of a non-negative float.
math_ceil(x) ==
    IF BigIsZero(x.m)
    THEN 0
    ELSE IF x.e >= 0
         THEN BigToInt(BigShiftLeft(x.m, x.e))
         ELSE LET fl == BigToInt(BigShiftRight(x.m, -x.e))
              IN  IF BigLowBitsNonZero(x.m, -x.e) THEN fl + 1 ELSE fl

Max(a, b) == IF a >= b THEN a ELSE b

\* Estimated time per task (in minutes).
TASK_TIME ==
    [t \in {"Putaway 3002", "Unload Shuttles", "Unload 3002 Inbound",
            "Unload 3043 Inbound", "Load 3043 Outbound", "Load 3002 Outbound",
            "Load LTL Outbound"} |-> 20]
    @@ [t \in {"Putaway 3043", "LTL Picks Same Day", "LTL Picks Next Day"} |-> 15]
    @@ [t \in {"FTL Picks Same Day", "FTL Picks Next Day",
               "Export Live Loads Same Day", "Export Live Loads Next Day",
               "Export Drop Same Day", "Export Drop Next Day"} |-> 25]

WORK_MINUTES_PER_WORKER == 420

\* Faulty variant: urgency is counted down from the top of its scale.
priority_sum_halves_urgency_reversed(urgency, importance) ==
    (11 - urgency) * 3 + importance * 4

\* urgency * 1.5 + importance * 2, exactly, in halves.
priority_sum_halves(urgency, importance) == urgency * 3 + importance * 4

\* Faulty variant: the max(1, ...) floor of line 52 is dropped.
calculate_people_needed_no_floor(task, quantity, urgency, importance) ==
    IF task \notin DOMAIN TASK_TIME
    THEN 1
    ELSE math_ceil(float_mul(int_truediv(quantity * TASK_TIME[task], WORK_MINUTES_PER_WORKER),
                             halves_truediv(priority_sum_halves(urgency, importance), 10)))

\* Faulty variant: a task the catalog lacks is given 20 minutes per unit
\* instead of the fallback of line 43.
calculate_people_needed_default_time(task, quantity, urgency, importance) ==
    LET time_per_task == IF task \in DOMAIN TASK_TIME THEN TASK_TIME[task] ELSE 20
    IN  Max(1, math_ceil(float_mul(int_truediv(quantity * time_per_task, WORK_MINUTES_PER_WORKER),
                                   halves_truediv(priority_sum_halves(urgency, importance), 10))))

calculate_people_needed(task, quantity, urgency, importance) ==
    IF task \notin DOMAIN TASK_TIME
    THEN 1
    ELSE LET time_per_task     == TASK_TIME[task]
             total_time_needed == quantity * time_per_task
             priority_factor   == halves_truediv(priority_sum_halves(urgency, importance), 10)
         IN  Max(1, math_ceil(float_mul(int_truediv(total_time_needed, WORK_MINUTES_PER_WORKER),
                                        priority_factor)))

(***************************************************************************)
(* The sheet.  Row 1 is the header; data row i (0-based, as enumerate      *)
(* counts it) is sheet row i + 2.  The Priority cell is a float that is    *)
(* always a multiple of 0.5 of small magnitude, which binary64 holds       *)
(* exactly: the model keeps it as the integer number of halves.            *)
(***************************************************************************)
NumProcs == 2
NumRows == 2
MaxOps == 2

Procs == 1..NumProcs

HeaderRow ==
    <<"Task", "Urgency", "Importance", "Days Until Due", "Priority", "Quantity",
      "People Needed">>

\* Task names found in the sheet: one catalog task and one the catalog lacks.
StoreNames == {"Putaway 3043", "Cycle Count"}
\* Task names passed to update_task: "Putaway 3002" is in no sheet.
TaskArgs == StoreNames \cup {"Putaway 3002"}
\* Slider and number_input values passed to update_task.
\* as <<urgency, importance, days_until_due, quantity>>.
UpdateInputs == {<<8, 9, 1, 10>>, <<3, 10, 0, 0>>}
\* Cell contents <<Urgency, ..., People Needed>> of a row when the app starts.
InitValues == {<<5, 5, 0, 0, 0, 1>>, <<2, 4, 3, 19, 7, 3>>}

\* sheet: the worksheet's cells; sheet0: the cells when the app started;
\* pc, frame, ret: each operator's position in update_task or reset_tasks, its
\* local variables and its return value; calls: the update_cell calls its current
\* invocation has completed; ops: invocations started; anyFailed: whether some
\* invocation raised; calc: one application of a pure function; strings: the
\* <<row, column>> of every data cell whose content get_all_records gives as a
\* str (a task name, a blank, a text that is no number) and not as a number;
\* df: the table each operator's latest load_tasks returned.
VARIABLES sheet, sheet0, pc, frame, ret, calls, ops, anyFailed, calc, strings, df

vars == <<sheet, sheet0, pc, frame, ret, calls, ops, anyFailed, calc, strings, df>>

NoCalc ==
    [fn |-> "none", done |-> FALSE, task |-> "", quantity |-> 0, urgency |-> 0,
     importance |-> 0, days_until_due |-> 0, result |-> 0]

\* The locals of update_task, reset_tasks and load_tasks; col is the column of
\* the next update_cell call (0 before any, 8 after the last); e is the
\* exception load_tasks caught.
NoFrame ==
    [op |-> "none", task |-> "", existing_tasks |-> << >>, i |-> 0, col |-> 0,
     urgency |-> 0, importance |-> 0, days_until_due |-> 0, quantity |-> 0,
     priority |-> 0, people_needed |-> 0, e |-> "none"]

\* The table before any load_tasks has returned.
NoTable == [columns |-> << >>, rows |-> << >>]

\* The cells of the Task column: the strings of a sheet whose other cells are numbers.
TaskCells(s) == {<<r, 1>> : r \in 2..Len(s)}

\* sheet.get_all_records(): one dict per data row, keyed by the header row.
get_all_records(s) ==
    [k \in 1..(Len(s) - 1) |->
        [h \in {s[1][c] : c \in 1..Len(s[1])} |->
            s[k + 1][CHOOSE c \in 1..Len(s[1]) : s[1][c] = h]]]

\* sheet.update_cell(row, col, value)
update_cell(s, row, col, value) ==
    IF row \in 1..Len(s) /\ col \in 1..Len(s[row])
    THEN [s EXCEPT ![row][col] = value]
    ELSE s

\* Faulty variant: the days term is added instead of subtracted.
priority_halves_days_added(urgency, importance, days_until_due) ==
    urgency * 3 + importance * 4 + days_until_due

\* priority = (int(urgency) * 1.5) + (int(importance) * 2) - (int(days_until_due) * 0.5),
\* in halves.
priority_halves(urgency, importance, days_until_due) ==
    urgency * 3 + importance * 4 - days_until_due

\* Faulty variant: the scan takes the first row whatever its name.
first_match_any_name(existing_tasks, task, i) ==
    IF i >= Len(existing_tasks) THEN -1 ELSE i

\* Faulty variant: the scan keeps going and the last row named task wins.
RECURSIVE first_match_last_wins(_, _, _)
first_match_last_wins(existing_tasks, task, i) ==
    IF i >= Len(existing_tasks)
    THEN -1
    ELSE LET later == first_match_last_wins(existing_tasks, task, i + 1)
         IN  IF later >= 0
             THEN later
             ELSE IF existing_tasks[i + 1]["Task"] = task THEN i ELSE -1

\* The index enumerate gives the first row named task, or -1.
RECURSIVE first_match(_, _, _)
first_match(existing_tasks, task, i) ==
    IF i >= Len(existing_tasks)
    THEN -1
    ELSE IF existing_tasks[i + 1]["Task"] = task
         THEN i
         ELSE first_match(existing_tasks, task, i + 1)

StoreInit ==
    /\ \E n \in 0..NumRows :
         \E names \in [1..n -> StoreNames], values \in [1..n -> InitValues] :
            sheet = <<HeaderRow>> \o [k \in 1..n |-> <<names[k]>> \o values[k]]
    /\ sheet0 = sheet
    /\ pc = [p \in Procs |-> "idle"]
    /\ frame = [p \in Procs |-> NoFrame]
    /\ ret = [p \in Procs |-> "None"]
    /\ calls = [p \in Procs |-> << >>]
    /\ ops = 0
    /\ anyFailed = FALSE

Init ==
    /\ StoreInit
    /\ calc = NoCalc
    /\ strings = TaskCells(sheet)
    /\ df = [p \in Procs |-> NoTable]

CanCall(p) == pc[p] \in {"idle", "done", "failed"} /\ ops < MaxOps

\* Faulty variant: a task the sheet lacks is appended as a new row.
update_task_call_appends(p) ==
    \E task \in TaskArgs, input \in UpdateInputs :
        LET urgency        == input[1]
            importance     == input[2]
            days_until_due == input[3]
            quantity       == input[4]
            existing_tasks == get_all_records(sheet)
            i              == first_match(existing_tasks, task, 0)
            priority       == priority_halves(urgency, importance, days_until_due)
            people_needed  == calculate_people_needed(task, quantity, urgency, importance)
        IN  /\ CanCall(p)
            /\ ops' = ops + 1
            /\ calls' = [calls EXCEPT ![p] = << >>]
            /\ IF i < 0
               THEN /\ pc' = [pc EXCEPT ![p] = "done"]
                    /\ ret' = [ret EXCEPT ![p] = "True"]
                    /\ frame' = [frame EXCEPT ![p] =
                          [NoFrame EXCEPT !.op = "update", !.task = task,
                              !.existing_tasks = existing_tasks, !.i = i,
                              !.urgency = urgency, !.importance = importance,
                              !.days_until_due = days_until_due,
                              !.quantity = quantity]]
                    /\ sheet' = Append(sheet, <<task, urgency, importance, days_until_due,
                                                priority, quantity, people_needed>>)
                    /\ strings' = strings \cup {<<Len(sheet) + 1, 1>>}
               ELSE /\ pc' = [pc EXCEPT ![p] = "writing"]
                    /\ ret' = [ret EXCEPT ![p] = "None"]
                    /\ frame' = [frame EXCEPT ![p] =
                          [op |-> "update", task |-> task,
                           existing_tasks |-> existing_tasks, i |-> i, col |-> 2,
                           urgency |-> urgency, importance |-> importance,
                           days_until_due |-> days_until_due, quantity |-> quantity,
                           priority |-> priority, people_needed |-> people_needed,
                           e |-> "none"]]
                    /\ UNCHANGED <<sheet, strings>>
            /\ UNCHANGED <<sheet0, anyFailed, calc, df>>

\* update_task up to its first update_cell: the read, the scan, the two
\* calculations (lines 60-65), or the return False of line 80.
update_task_call(p) ==
    \E task \in TaskArgs, input \in UpdateInputs :
        LET urgency        == input[1]
            importance     == input[2]
            days_until_due == input[3]
            quantity       == input[4]
            existing_tasks == get_all_records(sheet)
            i              == first_match(existing_tasks, task, 0)
            priority       == priority_halves(urgency, importance, days_until_due)
            people_needed  == calculate_people_needed(task, quantity, urgency, importance)
        IN  /\ CanCall(p)
            /\ ops' = ops + 1
            /\ calls' = [calls EXCEPT ![p] = << >>]
            /\ IF i < 0
               THEN /\ pc' = [pc EXCEPT ![p] = "done"]
                    /\ ret' = [ret EXCEPT ![p] = "False"]
                    /\ frame' = [frame EXCEPT ![p] =
                          [NoFrame EXCEPT !.op = "update", !.task = task,
                              !.existing_tasks = existing_tasks, !.i = i,
                              !.urgency = urgency, !.importance = importance,
                              !.days_until_due = days_until_due,
                              !.quantity = quantity]]
               ELSE /\ pc' = [pc EXCEPT ![p] = "writing"]
                    /\ ret' = [ret EXCEPT ![p] = "None"]
                    /\ frame' = [frame EXCEPT ![p] =
                          [op |-> "update", task |-> task,
                           existing_tasks |-> existing_tasks, i |-> i, col |-> 2,
                           urgency |-> urgency, importance |-> importance,
                           days_until_due |-> days_until_due, quantity |-> quantity,
                           priority |-> priority, people_needed |-> people_needed,
                           e |-> "none"]]
            /\ UNCHANGED <<sheet, sheet0, anyFailed, calc, strings, df>>

\* Faulty variant: priority and quantity are written to each other's column.
update_value_swapped(f, col) ==
    CASE col = 2 -> f.urgency
      [] col = 3 -> f.importance
      [] col = 4 -> f.days_until_due
      [] col = 5 -> f.quantity
      [] col = 6 -> f.priority
      [] col = 7 -> f.people_needed

\* The local that update_task writes to column col (lines 70-75).
update_value(f, col) ==
    CASE col = 2 -> f.urgency
      [] col = 3 -> f.importance
      [] col = 4 -> f.days_until_due
      [] col = 5 -> f.priority
      [] col = 6 -> f.quantity
      [] col = 7 -> f.people_needed

\* The sheet row update_task and reset_tasks write for the row enumerate calls i.
sheet_row(i) == i + 2

\* Faulty variant: a write waits while another operator is in the middle of its writes.
update_task_write_locked(p) ==
    /\ pc[p] = "writing"
    /\ frame[p].op = "update"
    /\ \A o \in Procs \ {p} : pc[o] # "writing"
    /\ LET f == frame[p]
       IN  /\ sheet' = update_cell(sheet, sheet_row(f.i), f.col, update_value(f, f.col))
           /\ strings' = strings \ {<<sheet_row(f.i), f.col>>}
           /\ calls' = [calls EXCEPT ![p] =
                            Append(@, <<sheet_row(f.i), f.col, update_value(f, f.col)>>)]
           /\ IF f.col < 7
              THEN /\ frame' = [frame EXCEPT ![p].col = f.col + 1]
                   /\ UNCHANGED <<pc, ret>>
              ELSE /\ frame' = [frame EXCEPT ![p].col = 8]
                   /\ pc' = [pc EXCEPT ![p] = "done"]
                   /\ ret' = [ret EXCEPT ![p] = "True"]
    /\ UNCHANGED <<sheet0, ops, anyFailed, calc, df>>

\* Faulty variant: the sixth write also puts every other row back as the call read it.
update_task_write_whole_sheet(p) ==
    /\ pc[p] = "writing"
    /\ frame[p].op = "update"
    /\ LET f       == frame[p]
           written == update_cell(sheet, sheet_row(f.i), f.col, update_value(f, f.col))
       IN  /\ sheet' = IF f.col < 7
                       THEN written
                       ELSE [r \in 1..Len(sheet) |->
                               IF r = 1 \/ r = sheet_row(f.i)
                               THEN written[r]
                               ELSE [c \in 1..Len(sheet[1]) |->
                                       f.existing_tasks[r - 1][sheet[1][c]]]]
           /\ strings' = strings \ {<<sheet_row(f.i), f.col>>}
           /\ calls' = [calls EXCEPT ![p] =
                            Append(@, <<sheet_row(f.i), f.col, update_value(f, f.col)>>)]
           /\ IF f.col < 7
              THEN /\ frame' = [frame EXCEPT ![p].col = f.col + 1]
                   /\ UNCHANGED <<pc, ret>>
              ELSE /\ frame' = [frame EXCEPT ![p].col = 8]
                   /\ pc' = [pc EXCEPT ![p] = "done"]
                   /\ ret' = [ret EXCEPT ![p] = "True"]
    /\ UNCHANGED <<sheet0, ops, anyFailed, calc, df>>

\* One of the six update_cell calls of lines 70-75; after the sixth, return True.
update_task_write(p) ==
    /\ pc[p] = "writing"
    /\ frame[p].op = "update"
    /\ LET f == frame[p]
       IN  /\ sheet' = update_cell(sheet, sheet_row(f.i), f.col, update_value(f, f.col))
           /\ strings' = strings \ {<<sheet_row(f.i), f.col>>}
           /\ calls' = [calls EXCEPT ![p] =
                            Append(@, <<sheet_row(f.i), f.col, update_value(f, f.col)>>)]
           /\ IF f.col < 7
              THEN /\ frame' = [frame EXCEPT ![p].col = f.col + 1]
                   /\ UNCHANGED <<pc, ret>>
              ELSE /\ frame' = [frame EXCEPT ![p].col = 8]
                   /\ pc' = [pc EXCEPT ![p] = "done"]
                   /\ ret' = [ret EXCEPT ![p] = "True"]
    /\ UNCHANGED <<sheet0, ops, anyFailed, calc, df>>

\* Faulty variant: the defaults of Quantity and People Needed change places.
reset_value_swapped(col) ==
    CASE col = 2 -> 5
      [] col = 3 -> 5
      [] col = 4 -> 0
      [] col = 5 -> 0
      [] col = 6 -> 1
      [] col = 7 -> 0

\* The values reset_tasks writes to columns 2..7 (lines 105-110).
reset_value(col) ==
    CASE col = 2 -> 5
      [] col = 3 -> 5
      [] col = 4 -> 0
      [] col = 5 -> 0
      [] col = 6 -> 0
      [] col = 7 -> 1

\* reset_tasks up to its first update_cell: the read of line 101.
reset_tasks_call(p) ==
    LET existing_tasks == get_all_records(sheet)
    IN  /\ CanCall(p)
        /\ ops' = ops + 1
        /\ calls' = [calls EXCEPT ![p] = << >>]
        /\ ret' = [ret EXCEPT ![p] = "None"]
        /\ frame' = [frame EXCEPT ![p] =
              [NoFrame EXCEPT !.op = "reset", !.existing_tasks = existing_tasks,
                              !.col = 2]]
        /\ pc' = [pc EXCEPT ![p] = IF Len(existing_tasks) = 0 THEN "done" ELSE "writing"]
        /\ UNCHANGED <<sheet, sheet0, anyFailed, calc, strings, df>>

\* Faulty variant: the loop walks the rows from the last to the first.
reset_tasks_write_reversed(p) ==
    /\ pc[p] = "writing"
    /\ frame[p].op = "reset"
    /\ LET f   == frame[p]
           row == sheet_row(Len(f.existing_tasks) - 1 - f.i)
       IN  /\ sheet' = update_cell(sheet, row, f.col, reset_value(f.col))
           /\ strings' = strings \ {<<row, f.col>>}
           /\ calls' = [calls EXCEPT ![p] = Append(@, <<row, f.col, reset_value(f.col)>>)]
           /\ IF f.col < 7
              THEN /\ frame' = [frame EXCEPT ![p].col = f.col + 1]
                   /\ pc' = pc
              ELSE IF f.i + 1 < Len(f.existing_tasks)
                   THEN /\ frame' = [frame EXCEPT ![p].i = f.i + 1, ![p].col = 2]
                        /\ pc' = pc
                   ELSE /\ frame' = [frame EXCEPT ![p].col = 8]
                        /\ pc' = [pc EXCEPT ![p] = "done"]
    /\ UNCHANGED <<sheet0, ret, ops, anyFailed, calc, df>>

\* One of the update_cell calls of lines 105-110, for the row the loop is at.
reset_tasks_write(p) ==
    /\ pc[p] = "writing"
    /\ frame[p].op = "reset"
    /\ LET f == frame[p]
       IN  /\ sheet' = update_cell(sheet, sheet_row(f.i), f.col, reset_value(f.col))
           /\ strings' = strings \ {<<sheet_row(f.i), f.col>>}
           /\ calls' = [calls EXCEPT ![p] =
                            Append(@, <<sheet_row(f.i), f.col, reset_value(f.col)>>)]
           /\ IF f.col < 7
              THEN /\ frame' = [frame EXCEPT ![p].col = f.col + 1]
                   /\ pc' = pc
              ELSE IF f.i + 1 < Len(f.existing_tasks)
                   THEN /\ frame' = [frame EXCEPT ![p].i = f.i + 1, ![p].col = 2]
                        /\ pc' = pc
                   ELSE /\ frame' = [frame EXCEPT ![p].col = 8]
                        /\ pc' = [pc EXCEPT ![p] = "done"]
    /\ UNCHANGED <<sheet0, ret, ops, anyFailed, calc, df>>

\* sheet.update_cell raises: the exception leaves update_task or reset_tasks
\* at once, the cell it was about to write and all later ones unwritten.
update_cell_raises(p) ==
    /\ pc[p] = "writing"
    /\ pc' = [pc EXCEPT ![p] = "failed"]
    /\ anyFailed' = TRUE
    /\ UNCHANGED <<sheet, sheet0, frame, ret, calls, ops, calc, strings, df>>

\* sheet.get_all_records raises in update_task or reset_tasks: nothing is written.
get_all_records_raises(p) ==
    /\ CanCall(p)
    /\ \E op \in {"update", "reset"} :
          frame' = [frame EXCEPT ![p] = [NoFrame EXCEPT !.op = op]]
    /\ ops' = ops + 1
    /\ calls' = [calls EXCEPT ![p] = << >>]
    /\ ret' = [ret EXCEPT ![p] = "None"]
    /\ pc' = [pc EXCEPT ![p] = "failed"]
    /\ anyFailed' = TRUE
    /\ UNCHANGED <<sheet, sheet0, calc, strings, df>>

(***************************************************************************)
(* load_tasks.  An entry of the DataFrame carries its kind beside its      *)
(* value: a number, a str, or NaN.  get_all_records has already made a     *)
(* number of every cell whose text reads as one, so the strs that reach    *)
(* pd.to_numeric are blanks and texts that are no number.                  *)
(***************************************************************************)
Num(v) == [kind |-> "num", value |-> v]

NaN == [kind |-> "nan", value |-> 0]

\* pd.DataFrame(data): one row per dict, the columns the dicts' keys in the
\* header's order; no dict, no column.
pd_DataFrame(header, data, strs) ==
    [columns |-> IF Len(data) = 0 THEN << >> ELSE header,
     rows    |-> [k \in 1..Len(data) |->
                    [h \in DOMAIN data[k] |->
                        [kind  |-> IF <<k + 1, CHOOSE c \in 1..Len(header) : header[c] = h>>
                                          \in strs
                                   THEN "str" ELSE "num",
                         value |-> data[k][h]]]]]

\* pd.to_numeric(..., errors="coerce") on one entry.
to_numeric(x) == IF x.kind = "str" THEN NaN ELSE x

\* .fillna(value) on one entry.
fillna(x, value) == IF x.kind = "nan" THEN Num(value) ELSE x

\* Faulty variant: every column is filled with 0.
fill_value_all_zero(h) ==
    CASE h = "Priority"       -> 0
      [] h = "Quantity"       -> 0
      [] h = "People Needed"  -> 0
      [] h = "Days Until Due" -> 0

\* The fillna argument of each coerced column (lines 89-92).
fill_value(h) ==
    CASE h = "Priority"       -> 0
      [] h = "Quantity"       -> 0
      [] h = "People Needed"  -> 1
      [] h = "Days Until Due" -> 0

\* df[h] = pd.to_numeric(df[h], errors="coerce").fillna(fill_value(h))
coerce_column(t, h) ==
    [t EXCEPT !.rows =
        [k \in 1..Len(t.rows) |->
            [t.rows[k] EXCEPT ![h] = fillna(to_numeric(@), fill_value(h))]]]

\* The columns lines 89-92 coerce, in their order.
CoercedColumns == <<"Priority", "Quantity", "People Needed", "Days Until Due">>

\* Faulty variant: the fallback table has no column.
empty_table_no_columns == [columns |-> << >>, rows |-> << >>]

\* The table of line 97.
empty_table ==
    [columns |-> <<"Task", "Urgency", "Importance", "Days Until Due", "Priority",
                   "Quantity", "People Needed">>,
     rows    |-> << >>]

\* Lines 89-92 on the table t: df[h] of a column t lacks raises KeyError.
RECURSIVE coerce_columns(_, _)
coerce_columns(t, n) ==
    IF n > Len(CoercedColumns)
    THEN [e |-> "none", df |-> t]
    ELSE IF CoercedColumns[n] \notin {t.columns[c] : c \in 1..Len(t.columns)}
         THEN [e |-> "KeyError", df |-> empty_table]
         ELSE coerce_columns(coerce_column(t, CoercedColumns[n]), n + 1)

\* load_tasks when the read of line 85 succeeds: the table of line 94, or
\* that of line 97 when a later line of the try block raised.
load_tasks(p) ==
    LET data   == get_all_records(sheet)
        result == coerce_columns(pd_DataFrame(sheet[1], data, strings), 1)
    IN  /\ CanCall(p)
        /\ ops' = ops + 1
        /\ calls' = [calls EXCEPT ![p] = << >>]
        /\ ret' = [ret EXCEPT ![p] = "DataFrame"]
        /\ frame' = [frame EXCEPT ![p] =
              [NoFrame EXCEPT !.op = "load", !.existing_tasks = data, !.e = result.e]]
        /\ df' = [df EXCEPT ![p] = result.df]
        /\ pc' = [pc EXCEPT ![p] = "done"]
        /\ UNCHANGED <<sheet, sheet0, anyFailed, calc, strings>>

\* sheet.get_all_records raises in load_tasks: the except clause of lines
\* 95-97 catches it and the empty table is returned.
load_tasks_read_raises(p) ==
    /\ CanCall(p)
    /\ ops' = ops + 1
    /\ calls' = [calls EXCEPT ![p] = << >>]
    /\ ret' = [ret EXCEPT ![p] = "DataFrame"]
    /\ frame' = [frame EXCEPT ![p] = [NoFrame EXCEPT !.op = "load", !.e = "read error"]]
    /\ df' = [df EXCEPT ![p] = empty_table]
    /\ pc' = [pc EXCEPT ![p] = "done"]
    /\ UNCHANGED <<sheet, sheet0, anyFailed, calc, strings>>

Step(p) ==
    \/ update_task_call(p)
    \/ update_task_write(p)
    \/ reset_tasks_call(p)
    \/ reset_tasks_write(p)
    \/ update_cell_raises(p)
    \/ get_all_records_raises(p)
    \/ load_tasks(p)
    \/ load_tasks_read_raises(p)

\* Operators racing against the same sheet.
Next == \E p \in Procs : Step(p)

Spec == Init /\ [][Next]_vars

\* The script as one operator runs it: synchronous, one call at a time.
SeqNext == Step(1)

SeqSpec == Init /\ [][SeqNext]_vars
(***************************************************************************)
(* load_tasks on its own, over sheets in which some cells of the columns   *)
(* that should hold numbers hold a blank or a text that is no number.      *)
(***************************************************************************)
MaxDirty == 2

\* A text that is no number, and the blank of a missing value.
BadTexts == {"n/a", ""}

LoadInit ==
    /\ \E n \in 0..NumRows :
         \E D \in SUBSET ((2..(n + 1)) \X (2..Len(HeaderRow))) :
            /\ Cardinality(D) <= MaxDirty
            /\ \E names \in [1..n -> StoreNames], values \in [1..n -> InitValues],
                  texts \in [D -> BadTexts] :
                  /\ sheet = <<HeaderRow>> \o
                        [k \in 1..n |->
                            [c \in 1..Len(HeaderRow) |->
                                IF <<k + 1, c>> \in D
                                THEN texts[<<k + 1, c>>]
                                ELSE (<<names[k]>> \o values[k])[c]]]
                  /\ strings = TaskCells(sheet) \cup D
    /\ sheet0 = sheet
    /\ pc = [p \in Procs |-> "idle"]
    /\ frame = [p \in Procs |-> NoFrame]
    /\ ret = [p \in Procs |-> "None"]
    /\ calls = [p \in Procs |-> << >>]
    /\ ops = 0
    /\ anyFailed = FALSE
    /\ calc = NoCalc
    /\ df = [p \in Procs |-> NoTable]

LoadNext == \E p \in Procs : load_tasks(p) \/ load_tasks_read_raises(p)

LoadSpec == LoadInit /\ [][LoadNext]_vars

(***************************************************************************)
(* The two calculations on their own, over the inputs the form can give:   *)
(* the sliders' ranges and a quantity from 0 up.                           *)
(***************************************************************************)
MinUrgency == 1
MaxUrgency == 10
MinImportance == 1
MaxImportance == 10
MaxDaysUntilDue == 5
MaxQuantity == 48

\* Every catalog task and one name the catalog lacks.
CalcTasks == DOMAIN TASK_TIME \cup {"Cycle Count"}

IdleStore ==
    /\ sheet = <<HeaderRow>>
    /\ sheet0 = sheet
    /\ pc = [p \in Procs |-> "idle"]
    /\ frame = [p \in Procs |-> NoFrame]
    /\ ret = [p \in Procs |-> "None"]
    /\ calls = [p \in Procs |-> << >>]
    /\ ops = 0
    /\ anyFailed = FALSE
    /\ strings = TaskCells(sheet)
    /\ df = [p \in Procs |-> NoTable]

storeVars == <<sheet, sheet0, pc, frame, ret, calls, ops, anyFailed, strings, df>>

PeopleInit ==
    /\ IdleStore
    /\ \E task \in CalcTasks, quantity \in 0..MaxQuantity,
          urgency \in MinUrgency..MaxUrgency, importance \in MinImportance..MaxImportance :
          calc = [NoCalc EXCEPT !.fn = "calculate_people_needed", !.task = task,
                                !.quantity = quantity, !.urgency = urgency,
                                !.importance = importance]

apply_calculate_people_needed ==
    /\ calc.fn = "calculate_people_needed"
    /\ ~calc.done
    /\ calc' = [calc EXCEPT !.done = TRUE,
                            !.result = calculate_people_needed(calc.task, calc.quantity,
                                                               calc.urgency, calc.importance)]
    /\ UNCHANGED storeVars

PeopleSpec == PeopleInit /\ [][apply_calculate_people_needed]_vars

\* The staffing number wherever it arises: computed on its own over the
\* form's inputs, and written to the sheet by racing operators.
StaffInit == Init \/ PeopleInit

StaffNext ==
    \/ calc.fn = "none" /\ Next
    \/ apply_calculate_people_needed

StaffSpec == StaffInit /\ [][StaffNext]_vars

PriorityInit ==
    /\ IdleStore
    /\ \E urgency \in MinUrgency..MaxUrgency, importance \in MinImportance..MaxImportance,
          days_until_due \in 0..MaxDaysUntilDue :
          calc = [NoCalc EXCEPT !.fn = "priority", !.urgency = urgency,
                                !.importance = importance,
                                !.days_until_due = days_until_due]

apply_priority ==
    /\ calc.fn = "priority"
    /\ ~calc.done
    /\ calc' = [calc EXCEPT !.done = TRUE,
                            !.result = priority_halves(calc.urgency, calc.importance,
                                                       calc.days_until_due)]
    /\ UNCHANGED storeVars

PrioritySpec == PriorityInit /\ [][apply_priority]_vars
(***************************************************************************)
(* Properties.  Under SeqSpec operator 1 is the only one acting, so the    *)
(* records it read at the start of a call are the sheet as it was then.    *)
(***************************************************************************)
Columns == 1..Len(HeaderRow)

\* The cell at sheet row r, column c when the call with locals f read the sheet.
OldCell(f, r, c) ==
    IF r = 1 THEN HeaderRow[c] ELSE f.existing_tasks[r - 1][HeaderRow[c]]

SameShape(f) ==
    /\ Len(sheet) = Len(f.existing_tasks) + 1
    /\ \A r \in 1..Len(sheet) : Len(sheet[r]) = Len(HeaderRow)

SheetAsRead(f) ==
    /\ SameShape(f)
    /\ \A r \in 1..Len(sheet), c \in Columns : sheet[r][c] = OldCell(f, r, c)

\* get_all_records raised: the call ended before it read anything.
ReadFailed(p) == pc[p] = "failed" /\ frame[p].col = 0

HasNamed(f) == \E k \in 1..Len(f.existing_tasks) : f.existing_tasks[k]["Task"] = f.task

\* The lowest data row (1-based) named f.task.
FirstNamed(f) ==
    CHOOSE k \in 1..Len(f.existing_tasks) :
        /\ f.existing_tasks[k]["Task"] = f.task
        /\ \A j \in 1..(k - 1) : f.existing_tasks[j]["Task"] # f.task

\* What the row update_task matched is said to hold after the call, by column.
ClaimedUpdateValue(f, c) ==
    CASE c = 2 -> f.urgency
      [] c = 3 -> f.importance
      [] c = 4 -> f.days_until_due
      [] c = 5 -> f.urgency * 3 + f.importance * 4 - f.days_until_due
      [] c = 6 -> f.quantity
      [] c = 7 -> calculate_people_needed(f.task, f.quantity, f.urgency, f.importance)

BaselineValues == <<5, 5, 0, 0, 0, 1>>

\* C1: update_task on a sheet with no row named task returns False and
\* writes no cell: it never reaches an update_cell call and every cell is as
\* it was when the call read the sheet.
C1_AbsentTaskNoWrite ==
    LET f == frame[1]
    IN  (f.op = "update" /\ ~ReadFailed(1) /\ ~HasNamed(f))
        => /\ pc[1] = "done"
           /\ ret[1] = "False"
           /\ calls[1] = << >>
           /\ SheetAsRead(f)

C1_Witness ==
    /\ pc[1] = "done"
    /\ frame[1].op = "update"
    /\ ret[1] = "False"
    /\ Len(frame[1].existing_tasks) = NumRows
    /\ ~HasNamed(frame[1])
    /\ sheet = sheet0

\* C2: when update_task completes on a sheet with a row named task, it
\* returns True, the first such row holds the four inputs, the priority
\* urgency*1.5 + importance*2 - days*0.5 and the people needed, and every
\* other cell (other rows, later rows of the same name, the Task column,
\* the header) is as it was.
C2_UpdateWritesFirstMatch ==
    LET f == frame[1]
    IN  (f.op = "update" /\ pc[1] = "done" /\ HasNamed(f))
        => /\ ret[1] = "True"
           /\ SameShape(f)
           /\ \A r \in 1..Len(sheet), c \in Columns :
                 sheet[r][c] = IF r = FirstNamed(f) + 1 /\ c >= 2
                               THEN ClaimedUpdateValue(f, c)
                               ELSE OldCell(f, r, c)

C2_Witness ==
    LET f == frame[1]
    IN  /\ pc[1] = "done"
        /\ f.op = "update"
        /\ ret[1] = "True"
        /\ HasNamed(f)
        /\ FirstNamed(f) = 1
        /\ \E j \in 2..Len(f.existing_tasks) : f.existing_tasks[j]["Task"] = f.task
        /\ sheet[2][7] = 2
        /\ sheet[3] = sheet0[3]
        /\ sheet[2] # sheet0[2]

\* C3: when reset_tasks completes, every data row holds urgency 5,
\* importance 5, days 0, priority 0, quantity 0, people needed 1 and the
\* Task name it had, whatever it held before and whether or not the catalog
\* knows the name.
C3_ResetBaseline ==
    LET f == frame[1]
    IN  (f.op = "reset" /\ pc[1] = "done")
        => /\ SameShape(f)
           /\ sheet[1] = HeaderRow
           /\ \A r \in 2..Len(sheet) : sheet[r] = <<OldCell(f, r, 1)>> \o BaselineValues

C3_Witness ==
    LET f == frame[1]
    IN  /\ pc[1] = "done"
        /\ f.op = "reset"
        /\ Len(sheet) = NumRows + 1
        /\ \E r \in 2..Len(sheet) :
              /\ sheet[r][1] \notin DOMAIN TASK_TIME
              /\ f.existing_tasks[r - 1]["Priority"] # 0
        /\ \A r \in 2..Len(sheet) : SubSeq(sheet[r], 2, 7) = BaselineValues

\* C4: people needed is at least 1: calculate_people_needed returns at
\* least 1 for every task name, quantity >= 0 and urgency, importance in
\* 1..10, and from a sheet whose rows all hold People Needed >= 1 every row
\* holds People Needed >= 1 in every state that update_task and reset_tasks
\* calls reach, failed and interleaved ones included.
C4_PeopleAtLeastOne ==
    /\ (calc.fn = "calculate_people_needed" /\ calc.done) => calc.result >= 1
    /\ \A p \in Procs :
          (frame[p].op = "update" /\ frame[p].col >= 2) => frame[p].people_needed >= 1
    /\ (\A r \in 2..Len(sheet0) : sheet0[r][7] >= 1)
          => \A r \in 2..Len(sheet) : sheet[r][7] >= 1

C4_Witness ==
    \E p, o \in Procs :
        /\ p # o
        /\ pc[p] = "failed" /\ frame[p].op = "update" /\ frame[p].col = 7
        /\ frame[p].quantity = 0 /\ frame[p].task \in DOMAIN TASK_TIME
        /\ pc[o] = "writing" /\ frame[o].op = "reset" /\ frame[o].col = 5
        /\ frame[o].i = frame[p].i
        /\ Len(calls[o]) > 0

InitDerived ==
    \A r \in 2..Len(sheet0) :
        sheet0[r][5] = sheet0[r][2] * 3 + sheet0[r][3] * 4 - sheet0[r][4]

RowDerived(r) == sheet[r][5] = sheet[r][2] * 3 + sheet[r][3] * 4 - sheet[r][4]

AllCompleted == ~anyFailed /\ pc[1] \in {"idle", "done"}

\* C5 as stated: from a sheet whose rows all satisfy it, after any sequence
\* of update_task and reset_tasks calls that all completed, each row's
\* priority is urgency*1.5 + importance*2 - days*0.5 of that row.
C5_PriorityDerived_Original ==
    (InitDerived /\ AllCompleted) => \A r \in 2..Len(sheet) : RowDerived(r)

\* C5 as amended: under the same conditions each row's priority is
\* urgency*1.5 + importance*2 - days*0.5 of that row, or the row holds what
\* reset_tasks wrote: urgency 5, importance 5, days 0, priority 0, quantity
\* 0, people needed 1.
C5_PriorityDerivedOrBaseline ==
    (InitDerived /\ AllCompleted)
        => \A r \in 2..Len(sheet) :
              RowDerived(r) \/ SubSeq(sheet[r], 2, 7) = BaselineValues

C5_Witness ==
    /\ InitDerived
    /\ AllCompleted
    /\ ops = 2
    /\ frame[1].op = "update"
    /\ pc[1] = "done"
    /\ ret[1] = "True"
    /\ Len(sheet) = NumRows + 1
    /\ \E r \in 2..Len(sheet) : SubSeq(sheet[r], 2, 7) = BaselineValues /\ ~RowDerived(r)
    /\ \E r \in 2..Len(sheet) : RowDerived(r) /\ sheet[r] # sheet0[r]

\* The value the current call of p wrote to cell (r, c), as a set (empty if none).
Wrote(p, r, c) ==
    {calls[p][n][3] : n \in {m \in 1..Len(calls[p]) : calls[p][m][1] = r /\ calls[p][m][2] = c}}

\* Operators p and o each made one call, both completed, both wrote row r.
RacedOnRow(p, o, r) ==
    /\ p # o
    /\ ops = 2
    /\ ~anyFailed
    /\ pc[p] = "done" /\ pc[o] = "done"
    /\ frame[p].op # "none" /\ frame[o].op # "none"
    /\ \A c \in 2..7 : Wrote(p, r, c) # {} /\ Wrote(o, r, c) # {}

\* C6: no lock guards the rows: an operator in the middle of its writes can
\* always make its next update_cell call, whatever the others are doing, and
\* when two calls that wrote the same row have both completed, each field of
\* the row holds what one of the two wrote to it.  (The witness is the row
\* that holds fields of both, which neither serial order leaves.)
C6_NoLocking ==
    /\ \A p \in Procs :
          pc[p] = "writing"
              => \/ ENABLED update_task_write(p)
                 \/ ENABLED reset_tasks_write(p)
    /\ \A p, o \in Procs : \A r \in 2..Len(sheet) :
          RacedOnRow(p, o, r)
              => \A c \in 2..7 : sheet[r][c] \in Wrote(p, r, c) \cup Wrote(o, r, c)

C6_Witness ==
    \E p, o \in Procs : \E r \in 2..Len(sheet) :
        /\ RacedOnRow(p, o, r)
        /\ \E c \in 2..7 : sheet[r][c] \in Wrote(p, r, c) /\ sheet[r][c] \notin Wrote(o, r, c)
        /\ \E c \in 2..7 : sheet[r][c] \in Wrote(o, r, c) /\ sheet[r][c] \notin Wrote(p, r, c)

\* C7: update_task writes the matched row, data row i at sheet row i + 2,
\* in the order of columns 2, 3, 4, 5, 6, 7; at every point, and so when a
\* write raises, exactly the columns written so far hold the new values, the
\* rest of the row and every other row hold the old ones, and after the
\* raise no further write is made.
C7_UpdateWriteOrder ==
    LET f   == frame[1]
        row == FirstNamed(f) + 1
    IN  (f.op = "update" /\ ~ReadFailed(1) /\ HasNamed(f))
        => /\ f.col \in 2..8
           /\ calls[1] = [n \in 1..(f.col - 2) |-> <<row, n + 1, ClaimedUpdateValue(f, n + 1)>>]
           /\ SameShape(f)
           /\ \A r \in 1..Len(sheet), c \in Columns :
                 sheet[r][c] = IF r = row /\ 2 <= c /\ c < f.col
                               THEN ClaimedUpdateValue(f, c)
                               ELSE OldCell(f, r, c)
           /\ pc[1] = "failed" => ~ENABLED update_task_write(1)

C7_Witness ==
    LET f == frame[1]
    IN  /\ f.op = "update"
        /\ pc[1] = "failed"
        /\ f.col = 5
        /\ HasNamed(f)
        /\ FirstNamed(f) = 2
        /\ sheet[3][4] # sheet0[3][4]
        /\ sheet[3][5] = sheet0[3][5]
        /\ sheet[2] = sheet0[2]

\* C8: reset_tasks writes the rows in sheet order, six cells each; when a
\* write raises after row k is complete and before any write to row k + 1,
\* rows 1..k hold the baseline and rows k + 1..n are as they were.
C8_ResetPartial ==
    LET f == frame[1]
    IN  (f.op = "reset" /\ ~ReadFailed(1))
        => /\ \A n \in 1..Len(calls[1]) :
                 calls[1][n] = <<((n - 1) \div 6) + 2, ((n - 1) % 6) + 2,
                                 BaselineValues[((n - 1) % 6) + 1]>>
           /\ (pc[1] = "failed" /\ f.col = 2)
                 => /\ SameShape(f)
                    /\ sheet[1] = HeaderRow
                    /\ \A r \in 2..Len(sheet) :
                          sheet[r] = IF r - 1 <= f.i
                                     THEN <<OldCell(f, r, 1)>> \o BaselineValues
                                     ELSE [c \in Columns |-> OldCell(f, r, c)]

C8_Witness ==
    LET f == frame[1]
    IN  /\ f.op = "reset"
        /\ pc[1] = "failed"
        /\ f.col = 2
        /\ f.i = 1
        /\ Len(sheet) = NumRows + 1
        /\ SubSeq(sheet[2], 2, 7) = BaselineValues
        /\ sheet[2] # sheet0[2]
        /\ SubSeq(sheet[3], 2, 7) # BaselineValues
        /\ sheet[3] = sheet0[3]

\* ceil(a / b) for integers a >= 0, b > 0.
CeilDiv(a, b) == (a + b - 1) \div b

\* max(1, ceil((quantity*m / 420) * ((urgency*1.5 + importance*2) / 10))) as
\* the exact rational number gives it.
ExactPeopleNeeded(m, quantity, urgency, importance) ==
    Max(1, CeilDiv(quantity * m * (urgency * 3 + importance * 4), 420 * 20))

\* C9: for every catalog task with m minutes per unit, calculate_people_needed
\* returns max(1, ceil((quantity*m / 420) * ((urgency*1.5 + importance*2) / 10)))
\* evaluated exactly; "Putaway 3002" with quantity 10, urgency 8, importance 9
\* gives 2.
C9_ExactFormula ==
    (calc.fn = "calculate_people_needed" /\ calc.done /\ calc.task \in DOMAIN TASK_TIME)
        => /\ calc.result = ExactPeopleNeeded(TASK_TIME[calc.task], calc.quantity,
                                              calc.urgency, calc.importance)
           /\ (calc.task = "Putaway 3002" /\ calc.quantity = 10 /\ calc.urgency = 8
               /\ calc.importance = 9) => calc.result = 2

\* C10: the priority score is strictly increasing in urgency and in
\* importance and strictly decreasing in days until due, and is not clamped:
\* it is urgency*1.5 + importance*2 - days*0.5 itself.
C10_PriorityMonotone ==
    (calc.fn = "priority" /\ calc.done)
        => /\ \A u2 \in MinUrgency..MaxUrgency :
                 calc.urgency < u2
                     => calc.result < priority_halves(u2, calc.importance, calc.days_until_due)
           /\ \A i2 \in MinImportance..MaxImportance :
                 calc.importance < i2
                     => calc.result < priority_halves(calc.urgency, i2, calc.days_until_due)
           /\ \A d2 \in 0..MaxDaysUntilDue :
                 calc.days_until_due < d2
                     => calc.result > priority_halves(calc.urgency, calc.importance, d2)
           /\ calc.result = calc.urgency * 3 + calc.importance * 4 - calc.days_until_due

C10_Witness ==
    /\ calc.fn = "priority"
    /\ calc.done
    /\ calc.urgency < MaxUrgency
    /\ calc.importance < MaxImportance
    /\ calc.days_until_due = 1
    /\ calc.result = 2 * 14 + 1

\* C11: for a task name that is no key of TASK_TIME, calculate_people_needed
\* returns 1 whatever the quantity, urgency and importance, and a completed
\* update_task on a row of such a name writes 1 to People Needed.
C11_UnknownTaskOne ==
    /\ (calc.fn = "calculate_people_needed" /\ calc.done /\ calc.task \notin DOMAIN TASK_TIME)
          => calc.result = 1
    /\ \A p \in Procs :
          (frame[p].op = "update" /\ pc[p] = "done" /\ ret[p] = "True"
           /\ frame[p].task \notin DOMAIN TASK_TIME)
              => /\ Len(calls[p]) = 6
                 /\ calls[p][6] = <<FirstNamed(frame[p]) + 1, 7, 1>>

C11_Witness ==
    \E p \in Procs :
        /\ frame[p].op = "update"
        /\ pc[p] = "done"
        /\ ret[p] = "True"
        /\ frame[p].task \notin DOMAIN TASK_TIME
        /\ frame[p].quantity = 10
        /\ sheet[FirstNamed(frame[p]) + 1][6] = 10
        /\ sheet[FirstNamed(frame[p]) + 1][7] = 1

\* C12: load_tasks on a sheet with a blank or a text that is no number in
\* Priority, Quantity, Days Until Due or People Needed returns a table with
\* that entry 0, 0, 0 or 1, every other entry as the sheet holds it, and
\* raises nothing.
C12_LoadCoercesToDefault ==
    \A p \in Procs :
        frame[p].op = "load" =>
            /\ pc[p] = "done"
            /\ frame[p].e = "none" =>
                  /\ df[p].columns = HeaderRow
                  /\ Len(df[p].rows) = Len(sheet) - 1
                  /\ \A k \in 1..(Len(sheet) - 1), c \in 1..Len(HeaderRow) :
                        LET h == HeaderRow[c]
                            x == df[p].rows[k][h]
                        IN  IF <<k + 1, c>> \in strings
                               /\ h \in {"Priority", "Quantity", "Days Until Due"}
                            THEN x.kind = "num" /\ x.value = 0
                            ELSE IF <<k + 1, c>> \in strings /\ h = "People Needed"
                            THEN x.kind = "num" /\ x.value = 1
                            ELSE /\ x.kind = IF <<k + 1, c>> \in strings THEN "str" ELSE "num"
                                 /\ x.value = sheet[k + 1][c]

C12_Witness ==
    \E p \in Procs, k \in 1..(Len(sheet) - 1) :
        /\ frame[p].op = "load" /\ pc[p] = "done" /\ frame[p].e = "none"
        /\ <<k + 1, 7>> \in strings
        /\ sheet[k + 1][7] = "n/a"
        /\ df[p].rows[k]["People Needed"] = Num(1)
        /\ <<k + 1, 5>> \in strings
        /\ sheet[k + 1][5] = ""
        /\ df[p].rows[k]["Priority"] = Num(0)
        /\ df[p].rows[k]["Quantity"] = Num(sheet[k + 1][6])

C14_RowsAndNamesFixed ==
    /\ [](/\ Len(sheet) = Len(sheet0)
          /\ \A r \in 1..Len(sheet) :
                Len(sheet[r]) = Len(sheet0[r]) /\ sheet[r][1] = sheet0[r][1])
    /\ [][\A p \in Procs :
            (ops' = ops + 1 /\ frame'[p].op = "load" /\ ret'[p] = "DataFrame"
             /\ \A o \in Procs \ {p} : frame'[o] = frame[o] /\ pc'[o] = pc[o])
                => (sheet' = sheet /\ strings' = strings)]_vars

C14_Witness ==
    \E p \in Procs, o \in Procs :
        /\ Len(sheet) = NumRows + 1
        /\ frame[p].op = "load" /\ pc[p] = "done" /\ Len(df[p].rows) = NumRows
        /\ frame[o].op = "update" /\ pc[o] = "failed" /\ Len(calls[o]) = 3
        /\ sheet # sheet0
        /\ \A r \in 1..Len(sheet) : sheet[r][1] = sheet0[r][1]

\* The sheet after update_task with the arguments of f has run alone on s
\* from its read to its return.
SerialUpdate(s, f) ==
    IF \A r \in 2..Len(s) : s[r][1] # f.task
    THEN s
    ELSE LET row == CHOOSE r \in 2..Len(s) :
                        s[r][1] = f.task /\ \A j \in 2..(r - 1) : s[j][1] # f.task
         IN  [r \in 1..Len(s) |->
                IF r = row
                THEN [c \in 1..Len(s[r]) |->
                        IF c = 1 THEN s[r][c] ELSE ClaimedUpdateValue(f, c)]
                ELSE s[r]]

\* Exactly two update_task calls have run, one by each operator, for
\* different task names, and both returned.
TwoUpdatesDone ==
    /\ ops = 2
    /\ ~anyFailed
    /\ \A p \in Procs : frame[p].op = "update" /\ pc[p] = "done"
    /\ frame[1].task # frame[2].task

\* C15: when two update_task calls for different task names have both
\* returned, however their reads and update_cell calls interleaved, the
\* sheet is the one either serial order of the two calls gives.
C15_DistinctTasksCommute ==
    TwoUpdatesDone =>
        /\ sheet = SerialUpdate(SerialUpdate(sheet0, frame[1]), frame[2])
        /\ sheet = SerialUpdate(SerialUpdate(sheet0, frame[2]), frame[1])

\* Both calls wrote, and the second operator read the sheet while the first
\* was in the middle of its six writes.
C15_Witness ==
    /\ TwoUpdatesDone
    /\ ret[1] = "True" /\ ret[2] = "True"
    /\ \E r \in 2..Len(sheet) :
          /\ sheet0[r][1] = frame[1].task
          /\ frame[2].existing_tasks[r - 1]["Urgency"] = frame[1].urgency
          /\ frame[2].existing_tasks[r - 1]["Urgency"] # sheet0[r][2]
          /\ frame[2].existing_tasks[r - 1]["Quantity"] = sheet0[r][6]
          /\ frame[2].existing_tasks[r - 1]["Quantity"] # frame[1].quantity
    /\ sheet # sheet0

\* C16: for a task of TASK_TIME, calculate_people_needed does not decrease
\* when quantity, urgency or importance goes up by one with the other two
\* unchanged (quantity from 0, urgency and importance in 1..10), and it is 1
\* when quantity is 0.
C16_PeopleMonotone ==
    (calc.fn = "calculate_people_needed" /\ calc.done /\ calc.task \in DOMAIN TASK_TIME) =>
        /\ calc.result <= calculate_people_needed(calc.task, calc.quantity + 1,
                                                  calc.urgency, calc.importance)
        /\ calc.urgency < MaxUrgency =>
              calc.result <= calculate_people_needed(calc.task, calc.quantity,
                                                     calc.urgency + 1, calc.importance)
        /\ calc.importance < MaxImportance =>
              calc.result <= calculate_people_needed(calc.task, calc.quantity,
                                                     calc.urgency, calc.importance + 1)
        /\ calc.quantity = 0 => calc.result = 1

C16_Witness ==
    /\ calc.fn = "calculate_people_needed" /\ calc.done
    /\ calc.task = "FTL Picks Same Day"
    /\ calc.quantity = 47 /\ calc.urgency = 3 /\ calc.importance = 10
    /\ calc.result = 7
    /\ calculate_people_needed(calc.task, calc.quantity + 1, calc.urgency, calc.importance) = 8
====
